---- MODULE Spec2Model ----
(***************************************************************************)
(* Expense Tracker AI (src/app.py): one run of the Streamlit script over   *)
(* an uploaded bank statement.  The script is a straight pipeline of seven *)
(* phases; each phase is one action, and an exception raised inside a      *)
(* phase ends the run (pc = "error").  Amounts are integers (the script    *)
(* uses float64; sums and the 1.2 * mean threshold are modelled exactly as *)
(* rationals).  Text is a sequence of one-character strings.               *)
(***************************************************************************)
EXTENDS Integers, Sequences, FiniteSets, TLC

VARIABLES
    uploaded_file,    \* the CSV handed over by st.file_uploader (or none)
    pc,               \* the phase the script is about to run
    exc,              \* the exception that ended the run ("" if none)
    df,               \* the DataFrame: a sequence of rows (column -> cell)
    total_income, total_expense, balance,
    monthly_expense,  \* Series YearMonth -> expense, in index order
    category_sum,     \* Series Category -> expense, in sorted order
    avg_expense, threshold,
    prediction_df,    \* rows Month, Expense, Status
    category_expense, top_categories, advice,
    question,         \* TRUE when the user typed a question
    rendered          \* the widgets the run has put on the page, in order

vars == <<uploaded_file, pc, exc, df, total_income, total_expense, balance,
          monthly_expense, category_sum, avg_expense, threshold,
          prediction_df, category_expense, top_categories, advice,
          question, rendered>>

(***************************** bounds *************************************)
MaxRows == 2      \* rows of an arbitrary (possibly malformed) upload
MaxLedger == 4    \* rows of a well-formed upload
MaxFrags == 3     \* fragments a description is assembled from

(***************************** text ***************************************)
UpperChars == <<"A","B","C","D","E","F","G","H","I","J","K","L","M",
                "N","O","P","Q","R","S","T","U","V","W","X","Y","Z">>
LowerChars == <<"a","b","c","d","e","f","g","h","i","j","k","l","m",
                "n","o","p","q","r","s","t","u","v","w","x","y","z">>

LowerChar(c) ==
    IF \E i \in 1..Len(UpperChars) : UpperChars[i] = c
    THEN LowerChars[CHOOSE i \in 1..Len(UpperChars) : UpperChars[i] = c]
    ELSE c

\* str.lower()
Lower(s) == [i \in 1..Len(s) |-> LowerChar(s[i])]

\* Python's  kw in s  for strings
Contains(s, kw) ==
    \E i \in 0..(Len(s) - Len(kw)) :
        \A j \in 1..Len(kw) : s[i + j] = kw[j]

\* variant: the Utilities test is made before the Transport test
categorize_UtilitiesFirst(description) ==
    LET d == Lower(description) IN
    IF \/ Contains(d, <<"z","o","m","a","t","o">>)
       \/ Contains(d, <<"s","w","i","g","g","y">>)
       \/ Contains(d, <<"r","e","s","t","a","u","r","a","n","t">>)
    THEN "Food"
    ELSE IF \/ Contains(d, <<"e","l","e","c","t","r","i","c","i","t","y">>)
            \/ Contains(d, <<"b","i","l","l">>)
            \/ Contains(d, <<"i","n","t","e","r","n","e","t">>)
    THEN "Utilities"
    ELSE IF \/ Contains(d, <<"u","b","e","r">>)
            \/ Contains(d, <<"o","l","a">>)
            \/ Contains(d, <<"f","u","e","l">>)
            \/ Contains(d, <<"p","e","t","r","o","l">>)
    THEN "Transport"
    ELSE IF \/ Contains(d, <<"a","m","a","z","o","n">>)
            \/ Contains(d, <<"f","l","i","p","k","a","r","t">>)
            \/ Contains(d, <<"s","h","o","p","p","i","n","g">>)
            \/ Contains(d, <<"b","i","g"," ","b","a","z","a","a","r">>)
    THEN "Shopping"
    ELSE IF \/ Contains(d, <<"s","a","l","a","r","y">>)
            \/ Contains(d, <<"i","n","c","o","m","e">>)
    THEN "Salary"
    ELSE IF Contains(d, <<"n","e","t","f","l","i","x">>)
    THEN "Entertainment"
    ELSE "Other"

\* categorize(description), the if/elif chain
categorize(description) ==
    LET d == Lower(description) IN
    IF \/ Contains(d, <<"z","o","m","a","t","o">>)
       \/ Contains(d, <<"s","w","i","g","g","y">>)
       \/ Contains(d, <<"r","e","s","t","a","u","r","a","n","t">>)
    THEN "Food"
    ELSE IF \/ Contains(d, <<"u","b","e","r">>)
            \/ Contains(d, <<"o","l","a">>)
            \/ Contains(d, <<"f","u","e","l">>)
            \/ Contains(d, <<"p","e","t","r","o","l">>)
    THEN "Transport"
    ELSE IF \/ Contains(d, <<"e","l","e","c","t","r","i","c","i","t","y">>)
            \/ Contains(d, <<"b","i","l","l">>)
            \/ Contains(d, <<"i","n","t","e","r","n","e","t">>)
    THEN "Utilities"
    ELSE IF \/ Contains(d, <<"a","m","a","z","o","n">>)
            \/ Contains(d, <<"f","l","i","p","k","a","r","t">>)
            \/ Contains(d, <<"s","h","o","p","p","i","n","g">>)
            \/ Contains(d, <<"b","i","g"," ","b","a","z","a","a","r">>)
    THEN "Shopping"
    ELSE IF \/ Contains(d, <<"s","a","l","a","r","y">>)
            \/ Contains(d, <<"i","n","c","o","m","e">>)
    THEN "Salary"
    ELSE IF Contains(d, <<"n","e","t","f","l","i","x">>)
    THEN "Entertainment"
    ELSE "Other"

(***************************** cells **************************************)
\* A cell of the parsed CSV: k = "nan" (empty field), "str" (text that is
\* not a number / not a date), "num" (numeric text), "date" (a date).
NaNText == [k |-> "nan", v |-> <<>>]
Text(s) == [k |-> "str", v |-> s]
NaNNum  == [k |-> "nan", v |-> 0]
BadNum  == [k |-> "str", v |-> 0]        \* e.g. "abc"
Num(n)  == [k |-> "num", v |-> n]
NaNDate == [k |-> "nan", v |-> <<0, 0>>]
BadDate == [k |-> "str", v |-> <<0, 0>>] \* e.g. "not a date"
Date(y, m) == [k |-> "date", v |-> <<y, m>>]

Required == {"Date", "Description", "Amount"}

NoFile == [present |-> FALSE, columns |-> {}, rows |-> <<>>]
File(cols, rows) == [present |-> TRUE, columns |-> cols, rows |-> rows]

\* all sequences over S of length at most n
SeqUpTo(S, n) == UNION {[1..k -> S] : k \in 0..n}

(***************************** pandas *************************************)
\* DataFrame.dropna(): a row goes when any of its cells is NaN
dropna(rows) ==
    SelectSeq(rows, LAMBDA r : \A c \in DOMAIN r : r[c].k # "nan")

\* pd.to_datetime(..., errors='coerce') on one cell: a date parses, any
\* other text becomes NaT
to_datetime(cell) == IF cell.k = "date" THEN cell ELSE NaNDate

\* DataFrame.dropna(subset=['Date'])
dropna_Date(rows) == SelectSeq(rows, LAMBDA r : r["Date"].k # "nan")

\* variant: x >= 0 taken as income
Type_ZeroIsIncome(x) == IF x >= 0 THEN "Income" ELSE "Expense"

\* the lambda of line 20
Type(x) == IF x > 0 THEN "Income" ELSE "Expense"

\* one more column on a row
WithColumn(r, c, val) ==
    [x \in DOMAIN r \cup {c} |-> IF x = c THEN val ELSE r[x]]

DigitChars == <<"0","1","2","3","4","5","6","7","8","9">>
Digit(n) == DigitChars[n + 1]

\* dt.to_period('M').astype(str): "YYYY-MM"
YearMonthStr(d) ==
    LET y == d[1]
        m == d[2]
    IN <<Digit(y \div 1000), Digit((y \div 100) % 10), Digit((y \div 10) % 10),
         Digit(y % 10), "-", Digit(m \div 10), Digit(m % 10)>>

\* code point order of the characters a YearMonth string is made of
CharCode(c) ==
    IF c = "-" THEN 45
    ELSE 47 + (CHOOSE i \in 1..Len(DigitChars) : DigitChars[i] = c)

\* Python's  s < t  for strings (lexicographic by code point)
StrLess(s, t) ==
    \E i \in 1..(Len(s) + 1) :
        /\ i <= Len(t)
        /\ \A j \in 1..(i - 1) : s[j] = t[j]
        /\ \/ i = Len(s) + 1
           \/ CharCode(s[i]) < CharCode(t[i])

\* the seven labels in Python's string order (groupby sorts its keys)
SortedLabels == <<"Entertainment", "Food", "Other", "Salary", "Shopping",
                  "Transport", "Utilities">>
LabelRank(c) == CHOOSE i \in 1..Len(SortedLabels) : SortedLabels[i] = c
LabelLess(a, b) == LabelRank(a) < LabelRank(b)

\* the order groupby puts the keys of the column col in
KeyLess(col, a, b) ==
    IF col = "YearMonth" THEN StrLess(a, b) ELSE LabelLess(a, b)

\* the keys S of the column col in ascending order
SortKeys(S, col) ==
    [i \in 1..Cardinality(S) |->
        CHOOSE x \in S : Cardinality({y \in S : KeyLess(col, y, x)}) = i - 1]

RECURSIVE SumAmount(_)
\* Series.sum() of the Amount column of some rows (0 when there are none)
SumAmount(rows) ==
    IF Len(rows) = 0 THEN 0
    ELSE rows[1]["Amount"].v + SumAmount(Tail(rows))

\* df[df['Type'] == t]
OfType(rows, t) == SelectSeq(rows, LAMBDA r : r["Type"] = t)

\* rows.groupby(col)['Amount'].sum(): one entry per key, keys sorted
GroupBySum(rows, col) ==
    LET keys == SortKeys({rows[i][col] : i \in 1..Len(rows)}, col)
    IN [i \in 1..Len(keys) |->
          [key |-> keys[i],
           Amount |-> SumAmount(SelectSeq(rows, LAMBDA r : r[col] = keys[i]))]]

\* unary minus on a Series
Negated(series) ==
    [i \in 1..Len(series) |-> [key |-> series[i].key, Amount |-> -series[i].Amount]]

RECURSIVE SortedOrders(_)
\* Series.sort_values(): the default sort is not stable, so entries with
\* equal values may come out in any order
SortedOrders(S) ==
    IF S = {} THEN {<<>>}
    ELSE UNION {{<<e>> \o rest : rest \in SortedOrders(S \ {e})} :
                e \in {x \in S : \A y \in S : x.Amount <= y.Amount}}

sort_values(series) == SortedOrders({series[i] : i \in 1..Len(series)})

TopN == 3

\* variant: the last three entries instead of the first three
head_Last(series) ==
    SubSeq(series, IF Len(series) < TopN THEN 1 ELSE Len(series) - TopN + 1,
           Len(series))

\* Series.head(3)
head(series) ==
    SubSeq(series, 1, IF Len(series) < TopN THEN Len(series) ELSE TopN)

RECURSIVE SumValues(_)
SumValues(series) ==
    IF Len(series) = 0 THEN 0 ELSE series[1].Amount + SumValues(Tail(series))

\* Series.mean(): NaN for an empty series, else the exact quotient num/den
mean(series) ==
    IF Len(series) = 0 THEN [nan |-> TRUE, num |-> 0, den |-> 1]
    ELSE [nan |-> FALSE, num |-> SumValues(series), den |-> Len(series)]

\* variant: avg_expense * 0.8
Threshold_FourFifths(avg) ==
    [nan |-> avg.nan, num |-> avg.num * 4, den |-> avg.den * 5]

\* avg_expense * 1.2  (1.2 = 6/5; NaN stays NaN)
Threshold(avg) == [nan |-> avg.nan, num |-> avg.num * 6, den |-> avg.den * 5]

\* x > threshold  (any comparison with NaN is False)
Greater(x, t) == ~t.nan /\ x * t.den > t.num

\* variant: x >= threshold
Status_AtOrAbove(x, t) ==
    IF ~t.nan /\ x * t.den >= t.num THEN "Overspending Risk" ELSE "Within Budget"

\* the lambda of lines 85-87
Status(x, t) == IF Greater(x, t) THEN "Overspending Risk" ELSE "Within Budget"

\* the if/elif chain of lines 106-117
AdviceFor(category) ==
    IF category = "Food"
    THEN <<"You're spending a lot on food. Try cooking at home more often or setting a monthly dining budget.">>
    ELSE IF category = "Shopping"
    THEN <<"High shopping bills detected. Consider limiting impulse buys or setting a wishlist before shopping.">>
    ELSE IF category = "Transport"
    THEN <<"Transport costs are high. Try carpooling, using public transport, or optimizing your routes.">>
    ELSE IF category = "Utilities"
    THEN <<"Utilities seem high. Consider energy-saving habits or reviewing your internet/electricity plans.">>
    ELSE IF category = "Entertainment"
    THEN <<"Subscriptions and entertainment are adding up. Cancel unused subscriptions or switch to cheaper plans.">>
    ELSE <<"Spending on **", category,
           "** is significant. Try to review if all those purchases were essential.">>

(***************************** the run ************************************)
\* Phase 1 (lines 10-14): no file -> st.info; else read_csv and dropna
Upload ==
    /\ pc = "upload"
    /\ IF ~uploaded_file.present
       THEN /\ pc' = "idle"
            /\ rendered' = Append(rendered, "info")
            /\ df' = df
       ELSE /\ pc' = "clean"
            /\ df' = dropna(uploaded_file.rows)
            /\ rendered' = rendered
    /\ UNCHANGED <<uploaded_file, exc, total_income, total_expense, balance,
                   monthly_expense, category_sum, avg_expense, threshold,
                   prediction_df, category_expense, top_categories, advice,
                   question>>

\* df['Date'] = pd.to_datetime(...); df.dropna(subset=['Date'])  (17-18)
DateCleaned(rows) ==
    dropna_Date([i \in 1..Len(rows) |->
                    [rows[i] EXCEPT !["Date"] = to_datetime(@)]])

\* astype(float) succeeds on a column iff every cell is numeric text
AllNumeric(rows) == \A i \in 1..Len(rows) : rows[i]["Amount"].k = "num"

\* lines 19-20 on a frame whose Amount column converts
Typed(rows) ==
    [i \in 1..Len(rows) |-> WithColumn(rows[i], "Type", Type(rows[i]["Amount"].v))]

\* Phase 2 (lines 17-20)
Clean ==
    /\ pc = "clean"
    /\ IF "Date" \notin uploaded_file.columns
       THEN /\ pc' = "error" /\ exc' = "KeyError" /\ df' = df
       ELSE IF "Amount" \notin uploaded_file.columns
       THEN /\ pc' = "error" /\ exc' = "KeyError" /\ df' = DateCleaned(df)
       ELSE IF ~AllNumeric(DateCleaned(df))
       THEN /\ pc' = "error" /\ exc' = "ValueError" /\ df' = DateCleaned(df)
       ELSE /\ pc' = "categorize" /\ exc' = exc
            /\ df' = Typed(DateCleaned(df))
    /\ UNCHANGED <<uploaded_file, total_income, total_expense, balance,
                   monthly_expense, category_sum, avg_expense, threshold,
                   prediction_df, category_expense, top_categories, advice,
                   question, rendered>>

\* lines 40-41
Categorized(rows) ==
    [i \in 1..Len(rows) |->
        WithColumn(WithColumn(rows[i], "Category",
                              categorize(rows[i]["Description"].v)),
                   "YearMonth", YearMonthStr(rows[i]["Date"].v))]

\* variant: the table is put on the page before the Description column is
\* looked up
Categorize_TableFirst ==
    /\ pc = "categorize"
    /\ IF "Description" \notin uploaded_file.columns
       THEN /\ pc' = "error" /\ exc' = "KeyError"
            /\ df' = df
            /\ rendered' = rendered \o <<"markdown:data", "dataframe:df">>
       ELSE /\ pc' = "dashboard" /\ exc' = exc
            /\ df' = Categorized(df)
            /\ rendered' = rendered \o <<"markdown:data", "dataframe:df">>
    /\ UNCHANGED <<uploaded_file, total_income, total_expense, balance,
                   monthly_expense, category_sum, avg_expense, threshold,
                   prediction_df, category_expense, top_categories, advice,
                   question>>

\* Phase 3 (lines 23-44)
Categorize ==
    /\ pc = "categorize"
    /\ IF "Description" \notin uploaded_file.columns
       THEN /\ pc' = "error" /\ exc' = "KeyError"
            /\ UNCHANGED <<df, rendered>>
       ELSE /\ pc' = "dashboard" /\ exc' = exc
            /\ df' = Categorized(df)
            /\ rendered' = rendered \o <<"markdown:data", "dataframe:df">>
    /\ UNCHANGED <<uploaded_file, total_income, total_expense, balance,
                   monthly_expense, category_sum, avg_expense, threshold,
                   prediction_df, category_expense, top_categories, advice,
                   question>>

\* Phase 4 (lines 47-76)
Dashboard ==
    /\ pc = "dashboard"
    /\ total_income' = SumAmount(OfType(df, "Income"))
    /\ total_expense' = -SumAmount(OfType(df, "Expense"))
    /\ balance' = total_income' - total_expense'
    /\ monthly_expense' =
          Negated(GroupBySum(OfType(df, "Expense"), "YearMonth"))
    /\ \E sorted \in sort_values(GroupBySum(OfType(df, "Expense"), "Category")) :
          category_sum' = Negated(sorted)
    /\ rendered' = rendered \o
          <<"metric:Total Income", "metric:Total Expense", "metric:Net Balance",
            "markdown:trend", "pyplot:trend", "markdown:pie", "pyplot:pie">>
    /\ pc' = "predict"
    /\ UNCHANGED <<uploaded_file, exc, df, avg_expense, threshold,
                   prediction_df, category_expense, top_categories, advice,
                   question>>

\* lines 83-87
Prediction(series, t) ==
    [i \in 1..Len(series) |->
        [Month |-> series[i].key, Expense |-> series[i].Amount,
         Status |-> Status(series[i].Amount, t)]]

\* variant: the mean is taken as sum / len, which raises on an empty series
Predict_RaiseOnEmpty ==
    /\ pc = "predict"
    /\ IF Len(monthly_expense) = 0
       THEN /\ pc' = "error" /\ exc' = "ZeroDivisionError"
            /\ UNCHANGED <<avg_expense, threshold, prediction_df>>
            /\ rendered' = rendered \o <<"markdown:prediction">>
       ELSE /\ pc' = "advise" /\ exc' = exc
            /\ avg_expense' = mean(monthly_expense)
            /\ threshold' = Threshold(avg_expense')
            /\ prediction_df' = Prediction(monthly_expense, threshold')
            /\ rendered' = rendered
                  \o <<"markdown:prediction", "dataframe:prediction_df">>
                  \o (IF \E i \in 1..Len(prediction_df') :
                            prediction_df'[i].Status = "Overspending Risk"
                      THEN <<"warning:overspending">> ELSE <<>>)
    /\ UNCHANGED <<uploaded_file, df, total_income, total_expense, balance,
                   monthly_expense, category_sum, category_expense,
                   top_categories, advice, question>>

\* Phase 5 (lines 79-92)
Predict ==
    /\ pc = "predict"
    /\ avg_expense' = mean(monthly_expense)
    /\ threshold' = Threshold(avg_expense')
    /\ prediction_df' = Prediction(monthly_expense, threshold')
    /\ rendered' = rendered \o <<"markdown:prediction", "dataframe:prediction_df">>
          \o (IF \E i \in 1..Len(prediction_df') :
                    prediction_df'[i].Status = "Overspending Risk"
              THEN <<"warning:overspending">> ELSE <<>>)
    /\ pc' = "advise"
    /\ UNCHANGED <<uploaded_file, exc, df, total_income, total_expense, balance,
                   monthly_expense, category_sum, category_expense,
                   top_categories, advice, question>>

\* Phase 6 (lines 95-120)
Advise ==
    /\ pc = "advise"
    /\ \E sorted \in sort_values(GroupBySum(OfType(df, "Expense"), "Category")) :
          category_expense' = Negated(sorted)
    /\ top_categories' = head(category_expense')
    /\ advice' = [i \in 1..Len(top_categories') |->
                     AdviceFor(top_categories'[i].key)]
    /\ rendered' = rendered \o
          <<"markdown:advice", "write:top", "dataframe:top_categories">>
          \o [i \in 1..Len(advice') |-> "success:tip"]
    /\ pc' = "chat"
    /\ UNCHANGED <<uploaded_file, exc, df, total_income, total_expense, balance,
                   monthly_expense, category_sum, avg_expense, threshold,
                   prediction_df, question>>

\* what the POST to LM Studio can come to: a reply, or an exception raised by
\* requests.post, by response.json() or by the ['choices'][0]... lookup
ChatOutcomes == {"reply", "ConnectionError", "JSONDecodeError", "KeyError"}

\* variant: except requests.ConnectionError only
Caught_OnlyConnectionError(outcome) == outcome = "ConnectionError"

\* except Exception (line 157): the handler takes every exception the call
\* can raise
Caught(outcome) == outcome \in {"ConnectionError", "JSONDecodeError", "KeyError"}

\* Phase 7 (lines 123-158)
Chat ==
    /\ pc = "chat"
    /\ \E q \in BOOLEAN, outcome \in ChatOutcomes :
          /\ question' = q
          /\ IF ~q
             THEN /\ rendered' = rendered \o <<"markdown:chat", "text_input">>
                  /\ pc' = "done" /\ exc' = exc
             ELSE IF outcome = "reply"
             THEN /\ rendered' = rendered \o
                        <<"markdown:chat", "text_input", "success:reply">>
                  /\ pc' = "done" /\ exc' = exc
             ELSE IF Caught(outcome)
             THEN /\ rendered' = rendered \o
                        <<"markdown:chat", "text_input", "error:LM Studio">>
                  /\ pc' = "done" /\ exc' = exc
             ELSE /\ rendered' = rendered \o <<"markdown:chat", "text_input">>
                  /\ pc' = "error" /\ exc' = outcome
    /\ UNCHANGED <<uploaded_file, df, total_income, total_expense, balance,
                   monthly_expense, category_sum, avg_expense, threshold,
                   prediction_df, category_expense, top_categories, advice>>

Next == Upload \/ Clean \/ Categorize \/ Dashboard \/ Predict \/ Advise \/ Chat

(***************************** uploads ************************************)
\* everything but the upload: the page holds the title and the uploader, and
\* no name of the script is bound yet (0 and <<>> stand for "not assigned")
Start ==
    /\ pc = "upload" /\ exc = "" /\ df = <<>>
    /\ total_income = 0 /\ total_expense = 0 /\ balance = 0
    /\ monthly_expense = <<>> /\ category_sum = <<>>
    /\ avg_expense = [nan |-> TRUE, num |-> 0, den |-> 1]
    /\ threshold = [nan |-> TRUE, num |-> 0, den |-> 1]
    /\ prediction_df = <<>> /\ category_expense = <<>>
    /\ top_categories = <<>> /\ advice = <<>>
    /\ question = FALSE
    /\ rendered = <<"title", "file_uploader">>

D_ZomatoOrder == <<"Z","o","m","a","t","o"," ","o","r","d","e","r">>
D_SalaryCredit == <<"S","a","l","a","r","y"," ","c","r","e","d","i","t">>
D_Swiggy == <<"S","w","i","g","g","y">>
D_UberBill == <<"U","b","e","r"," ","b","i","l","l">>
D_Amazon == <<"A","m","a","z","o","n">>
D_Rent == <<"r","e","n","t">>
D_Netflix == <<"N","e","t","f","l","i","x">>

\* a CSV row over the columns cols
Row(cols, d, s, a, n) ==
    [c \in cols |-> IF c = "Date" THEN d
                    ELSE IF c = "Description" THEN s
                    ELSE IF c = "Amount" THEN a
                    ELSE n]

\* arbitrary uploads: a required column may be absent, an extra column
\* (Note) may be there, and any cell may be empty or malformed
ColumnSets == {Required, Required \cup {"Note"}} \cup
              {Required \ {c} : c \in Required}
DirtyRows(cols) ==
    {Row(cols, d, s, a, n) :
        d \in {BadDate, Date(2024, 1)},
        s \in {Text(D_ZomatoOrder)},
        a \in {NaNNum, BadNum, Num(-450), Num(50000)},
        n \in {NaNText, Text(<<"x">>)}}

Init ==
    /\ Start
    /\ uploaded_file \in {NoFile} \cup
          UNION {{File(cols, rows) : rows \in SeqUpTo(DirtyRows(cols), MaxRows)} :
                 cols \in ColumnSets}

Spec == Init /\ [][Next]_vars

\* well-formed statements: several months across a year end, several
\* categories, an income row and a zero-amount row
LedgerRows ==
    {Row(Required, Date(2023, 11), Text(D_ZomatoOrder), Num(-100), NaNText),
     Row(Required, Date(2023, 12), Text(D_Swiggy), Num(-100), NaNText),
     Row(Required, Date(2024, 1), Text(D_ZomatoOrder), Num(-100), NaNText),
     Row(Required, Date(2024, 2), Text(D_Amazon), Num(-500), NaNText),
     Row(Required, Date(2024, 1), Text(D_Rent), Num(-300), NaNText),
     Row(Required, Date(2024, 1), Text(D_SalaryCredit), Num(50000), NaNText),
     Row(Required, Date(2023, 12), Text(D_Netflix), Num(0), NaNText)}

InitLedger ==
    /\ Start
    /\ uploaded_file \in {File(Required, rows) : rows \in SeqUpTo(LedgerRows, MaxLedger)}

SpecLedger == InitLedger /\ [][Next]_vars

\* one-row statements whose description is put together from fragments
Fragments ==
    {<<"U","b","e","r">>, <<" ">>, <<"b","i","l","l">>, <<"o">>, <<"l","a">>,
     <<"N","E","T","F","L","I","X">>, <<"I","n">>, <<"c","o","m","e">>,
     <<"b","i","g">>, <<"b","a","z","a","a","r">>,
     <<"Z","o","m","a","t","o">>}

RECURSIVE Concat(_)
Concat(parts) ==
    IF Len(parts) = 0 THEN <<>> ELSE parts[1] \o Concat(Tail(parts))

Descriptions ==
    {Concat(parts) : parts \in SeqUpTo(Fragments, MaxFrags) \ {<<>>}}

InitCat ==
    /\ Start
    /\ uploaded_file \in
          {File(Required, <<Row(Required, Date(2024, 1), Text(d), Num(-100), NaNText)>>) :
             d \in Descriptions}

SpecCat == InitCat /\ [][Next]_vars

(***************************** properties *********************************)
Columns == uploaded_file.columns
RawRows == uploaded_file.rows

\* the upload has the three required columns
SchemaOk == uploaded_file.present /\ Required \subseteq Columns

\* a raw row whose three required fields are all there and all parse
ValidRow(r) ==
    /\ r["Date"].k = "date"
    /\ r["Description"].k = "str"
    /\ r["Amount"].k = "num"

\* the frame cut back to the columns of the upload
RawPart(rows) == [i \in 1..Len(rows) |-> [c \in Columns |-> rows[i][c]]]

AfterClean == {"categorize", "dashboard", "predict", "advise", "chat", "done"}
AfterDashboard == {"predict", "advise", "chat", "done"}
AfterPredict == {"advise", "chat", "done"}
AfterAdvise == {"chat", "done"}

\* the page as it is before any phase has shown anything
NothingShown == rendered = <<"title", "file_uploader">>

\* no value of the pipeline has been computed
NothingComputed ==
    /\ total_income = 0 /\ total_expense = 0 /\ balance = 0
    /\ monthly_expense = <<>> /\ category_sum = <<>>
    /\ prediction_df = <<>> /\ category_expense = <<>>
    /\ top_categories = <<>> /\ advice = <<>>

Shown(w) == \E i \in 1..Len(rendered) : rendered[i] = w

RECURSIVE SumInts(_)
\* the sum of a sequence of integers
SumInts(xs) == IF Len(xs) = 0 THEN 0 ELSE xs[1] + SumInts(Tail(xs))

\* the rows of the upload that a loader rejecting only bad required fields
\* would keep, in their order
ValidRows == SelectSeq(RawRows, ValidRow)

\* C1: with all required columns there and exactly one row whose Amount is
\* not a number, the run does not abort, and once the aggregates are computed
\* the ledger is exactly the valid rows and all of them are in the balance.
C1_BadAmountRowOnlyDropped ==
    (/\ SchemaOk
     /\ Cardinality({i \in 1..Len(RawRows) : RawRows[i]["Amount"].k = "str"}) = 1)
    => /\ pc # "error"
       /\ pc \in AfterDashboard =>
             /\ RawPart(df) = ValidRows
             /\ balance = SumInts([i \in 1..Len(ValidRows) |->
                                      ValidRows[i]["Amount"].v])

\* C2: a row leaves the ledger only for a missing or unparseable Date,
\* Description or Amount: after loading, the ledger is the rows whose three
\* required fields are valid, in their original order, whatever their other
\* columns hold.
C2_OnlyRequiredFieldsDecide ==
    (SchemaOk /\ pc \in AfterClean) => RawPart(df) = ValidRows

\* C3: when the upload lacks a required column the run never gets past the
\* categorization phase, it stops only in the error state (an exception was
\* raised), and at no point has any output been shown or any aggregate been
\* computed.
C3_MissingColumnIsFatal ==
    (uploaded_file.present /\ ~(Required \subseteq Columns))
    => /\ pc \in {"upload", "clean", "categorize", "error"}
       /\ pc = "error" => exc # ""
       /\ pc # "error" => ENABLED Next
       /\ NothingShown
       /\ NothingComputed

C3_Witness ==
    /\ uploaded_file.present
    /\ "Amount" \notin Columns
    /\ Len(RawRows) > 0
    /\ pc = "error"

\* the ledger exists (loading succeeded) and holds no expense row
NoExpenseLedger ==
    /\ SchemaOk
    /\ pc \notin {"upload", "clean"}
    /\ \A i \in 1..Len(df) : "Type" \in DOMAIN df[i] /\ df[i]["Amount"].v > 0

\* C4: a ledger with no rows, or with no expense row, goes through every
\* phase without raising: total_expense is 0 (and for no rows total_income
\* and balance are 0 too), the monthly series and the overspending table are
\* empty, no overspending warning is shown, and there is no advice.
C4_EmptyLedgerRunsThrough ==
    NoExpenseLedger
    => /\ pc # "error"
       /\ pc # "done" => ENABLED Next
       /\ pc \in AfterDashboard =>
             /\ total_expense = 0
             /\ Len(monthly_expense) = 0
             /\ Len(df) = 0 => (total_income = 0 /\ balance = 0)
       /\ pc \in AfterPredict =>
             /\ Len(prediction_df) = 0
             /\ ~Shown("warning:overspending")
       /\ pc \in AfterAdvise =>
             /\ Len(top_categories) = 0
             /\ Len(advice) = 0

C4_Witness ==
    /\ NoExpenseLedger
    /\ pc = "done"
    /\ Len(RawRows) > 0
    /\ Len(df) = 0

C4_WitnessIncomeOnly ==
    /\ NoExpenseLedger
    /\ pc = "done"
    /\ Len(df) > 0
    /\ total_income > 0

\* when the assistant is reached, every aggregate is on the page and is what
\* the ledger gives
C9_Computed ==
    pc = "chat" =>
       /\ Shown("metric:Total Income") /\ Shown("metric:Total Expense")
       /\ Shown("metric:Net Balance")
       /\ Shown("dataframe:prediction_df") /\ Shown("dataframe:top_categories")
       /\ total_income = SumInts([i \in 1..Len(df) |->
                            IF df[i]["Amount"].v > 0 THEN df[i]["Amount"].v ELSE 0])
       /\ total_expense = SumInts([i \in 1..Len(df) |->
                            IF df[i]["Amount"].v > 0 THEN 0 ELSE -df[i]["Amount"].v])
       /\ balance = total_income - total_expense
       /\ Len(prediction_df) = Len(monthly_expense)
       /\ Len(top_categories) <= Len(category_expense)

\* the assistant step changes none of them and ends the run, with the reply
\* or the failure message on the page when a question was asked
C9_Step ==
    pc = "chat" =>
       /\ UNCHANGED <<total_income, total_expense, balance, monthly_expense,
                      prediction_df, category_expense, top_categories, advice, df>>
       /\ pc' = "done"
       /\ question' => rendered'[Len(rendered')] \in {"success:reply", "error:LM Studio"}

\* C9: the assistant is called only after the totals, the overspending table
\* and the top categories are computed, and whatever the call comes to
\* (reply, connection failure, malformed response) those values stay as they
\* are and the run ends with a message on the page, not with an abort.
C9_AssistantLeavesAggregates == [](C9_Computed) /\ [][C9_Step]_vars

C9_Witness ==
    /\ pc = "done"
    /\ question
    /\ Shown("error:LM Studio")
    /\ total_expense > 0
    /\ total_income > 0

\* the taxonomy: the keyword groups in their order of precedence
Groups ==
    <<[label |-> "Food",
       keywords |-> {<<"z","o","m","a","t","o">>, <<"s","w","i","g","g","y">>,
                     <<"r","e","s","t","a","u","r","a","n","t">>}],
      [label |-> "Transport",
       keywords |-> {<<"u","b","e","r">>, <<"o","l","a">>, <<"f","u","e","l">>,
                     <<"p","e","t","r","o","l">>}],
      [label |-> "Utilities",
       keywords |-> {<<"e","l","e","c","t","r","i","c","i","t","y">>,
                     <<"b","i","l","l">>, <<"i","n","t","e","r","n","e","t">>}],
      [label |-> "Shopping",
       keywords |-> {<<"a","m","a","z","o","n">>, <<"f","l","i","p","k","a","r","t">>,
                     <<"s","h","o","p","p","i","n","g">>,
                     <<"b","i","g"," ","b","a","z","a","a","r">>}],
      [label |-> "Salary",
       keywords |-> {<<"s","a","l","a","r","y">>, <<"i","n","c","o","m","e">>}],
      [label |-> "Entertainment",
       keywords |-> {<<"n","e","t","f","l","i","x">>}]>>

Labels == {"Food", "Transport", "Utilities", "Shopping", "Salary",
           "Entertainment", "Other"}

\* the groups one of whose keywords occurs in the lower-cased text
Matching(text) ==
    {g \in 1..Len(Groups) :
        \E kw \in Groups[g].keywords : Contains(Lower(text), kw)}

\* the description the row i of the frame was categorized from
DescriptionOf(i) == df[i]["Description"].v

\* C5: every description gets exactly one of the seven labels; it is the
\* label of the first group (in the order Food, Transport, Utilities,
\* Shopping, Salary, Entertainment) a keyword of which occurs in the
\* lower-cased text, and Other iff no keyword of any group occurs (checked
\* on the Category column as the categorization phase leaves it); the letter
\* case of the text does not matter, "Uber bill" is Transport and the empty
\* text is Other.
C5_CategorizeTotalOrdered ==
    /\ categorize(<<>>) = "Other"
    /\ pc = "dashboard" =>
          \A i \in 1..Len(df) :
             LET c == df[i]["Category"]
                 m == Matching(DescriptionOf(i))
             IN /\ c \in Labels
                /\ c = "Other" <=> m = {}
                /\ m # {} =>
                      c = Groups[CHOOSE g \in m : \A h \in m : g <= h].label
                /\ c = categorize(Lower(DescriptionOf(i)))
                /\ DescriptionOf(i) = D_UberBill => c = "Transport"

C5_Witness ==
    /\ pc = "dashboard"
    /\ Len(df) = 1
    /\ DescriptionOf(1) = D_UberBill
    /\ Matching(DescriptionOf(1)) = {2, 3}
    /\ df[1]["Category"] = "Transport"

\* the rows of the ledger that are money going out
ExpenseIdx == {i \in 1..Len(df) : df[i]["Amount"].v <= 0}
ExpenseCategories == {df[i]["Category"] : i \in ExpenseIdx}
ExpenseMonths == {df[i]["Date"].v : i \in ExpenseIdx}

\* what went out under the category c / in the calendar month m
SpentInCategory(c) ==
    SumInts([i \in 1..Len(df) |->
               IF i \in ExpenseIdx /\ df[i]["Category"] = c
               THEN -df[i]["Amount"].v ELSE 0])
SpentInMonth(m) ==
    SumInts([i \in 1..Len(df) |->
               IF i \in ExpenseIdx /\ df[i]["Date"].v = m
               THEN -df[i]["Amount"].v ELSE 0])

Total(series) == SumInts([i \in 1..Len(series) |-> series[i].Amount])

\* the series has exactly one entry per category with an expense row, each
\* holding what went out under it
PerCategory(series) ==
    /\ Len(series) = Cardinality(ExpenseCategories)
    /\ \A c \in ExpenseCategories :
          \E i \in 1..Len(series) :
             series[i].key = c /\ series[i].Amount = SpentInCategory(c)

\* C6: total_expense is the sum of the category series (both of them) and of
\* the monthly series; each row with amount <= 0 is counted, with its
\* absolute amount, under its one category and its one month, rows with
\* amount > 0 are counted nowhere, and total_expense is never negative.
C6_TotalIsSumOfParts ==
    pc \in AfterAdvise =>
       /\ total_expense >= 0
       /\ total_expense = Total(category_expense)
       /\ total_expense = Total(category_sum)
       /\ total_expense = Total(monthly_expense)
       /\ PerCategory(category_expense)
       /\ PerCategory(category_sum)
       /\ Len(monthly_expense) = Cardinality(ExpenseMonths)
       /\ \A m \in ExpenseMonths :
             \E i \in 1..Len(monthly_expense) :
                /\ monthly_expense[i].key = YearMonthStr(m)
                /\ monthly_expense[i].Amount = SpentInMonth(m)

C6_Witness ==
    /\ pc = "done"
    /\ Cardinality(ExpenseCategories) >= 2
    /\ Cardinality(ExpenseMonths) >= 2
    /\ \E i \in 1..Len(df) : df[i]["Amount"].v = 0
    /\ \E i \in 1..Len(df) : df[i]["Amount"].v > 0

\* the calendar month the entry i of the overspending table stands for
MonthAt(i) ==
    CHOOSE m \in ExpenseMonths : YearMonthStr(m) = prediction_df[i].Month
Calendar(m) == m[1] * 12 + m[2]

Expenses == [i \in 1..Len(prediction_df) |-> prediction_df[i].Expense]
Statuses == [i \in 1..Len(prediction_df) |-> prediction_df[i].Status]

\* C7: the overspending table has one entry per month with an expense, in
\* calendar order, each with that month's expense, and a month is at risk
\* iff its expense is more than 1.2 times the mean of all the monthly
\* expenses (5 * n * expense > 6 * sum), within budget otherwise; for
\* <<100, 100, 100, 500>> the threshold is 240 and only the last is at risk.
C7_OverspendingTable ==
    pc \in AfterPredict =>
       /\ Len(prediction_df) = Cardinality(ExpenseMonths)
       /\ \A i \in 1..Len(prediction_df) :
             /\ \E m \in ExpenseMonths : YearMonthStr(m) = prediction_df[i].Month
             /\ prediction_df[i].Expense = SpentInMonth(MonthAt(i))
             /\ prediction_df[i].Status \in {"Overspending Risk", "Within Budget"}
             /\ prediction_df[i].Status = "Overspending Risk" <=>
                   5 * Len(prediction_df) * prediction_df[i].Expense
                      > 6 * SumInts(Expenses)
       /\ \A i, j \in 1..Len(prediction_df) :
             i < j => Calendar(MonthAt(i)) < Calendar(MonthAt(j))
       /\ Expenses = <<100, 100, 100, 500>> =>
             /\ ~threshold.nan
             /\ threshold.num = 240 * threshold.den
             /\ Statuses = <<"Within Budget", "Within Budget", "Within Budget",
                             "Overspending Risk">>

C7_Witness ==
    /\ pc = "done"
    /\ Expenses = <<100, 100, 100, 500>>
    /\ Shown("warning:overspending")

\* the advice strings of the five categories that have one
FixedAdvice ==
    [Food |-> "You're spending a lot on food. Try cooking at home more often or setting a monthly dining budget.",
     Shopping |-> "High shopping bills detected. Consider limiting impulse buys or setting a wishlist before shopping.",
     Transport |-> "Transport costs are high. Try carpooling, using public transport, or optimizing your routes.",
     Utilities |-> "Utilities seem high. Consider energy-saving habits or reviewing your internet/electricity plans.",
     Entertainment |-> "Subscriptions and entertainment are adding up. Cancel unused subscriptions or switch to cheaper plans."]

Selected == {top_categories[i].key : i \in 1..Len(top_categories)}

\* C8: the advisor takes min(3, number of categories with an expense row)
\* categories, largest expense first; no category left out has a strictly
\* larger expense than one taken; there is one advice string per category
\* taken, the fixed one for Food, Shopping, Transport, Utilities and
\* Entertainment and the generic one naming the category for the others.
C8_TopThreeAdvice ==
    pc \in AfterAdvise =>
       /\ Len(top_categories) =
             (IF Cardinality(ExpenseCategories) < 3
              THEN Cardinality(ExpenseCategories) ELSE 3)
       /\ Len(advice) = Len(top_categories)
       /\ Cardinality(Selected) = Len(top_categories)
       /\ Selected \subseteq ExpenseCategories
       /\ \A i \in 1..Len(top_categories) :
             /\ top_categories[i].Amount = SpentInCategory(top_categories[i].key)
             /\ i > 1 => top_categories[i - 1].Amount >= top_categories[i].Amount
             /\ \A c \in ExpenseCategories \ Selected :
                   SpentInCategory(c) <= top_categories[i].Amount
             /\ IF top_categories[i].key \in DOMAIN FixedAdvice
                THEN advice[i] = <<FixedAdvice[top_categories[i].key]>>
                ELSE /\ top_categories[i].key \in {"Salary", "Other"}
                     /\ Len(advice[i]) = 3
                     /\ advice[i][1] = "Spending on **"
                     /\ advice[i][2] = top_categories[i].key

C8_Witness ==
    /\ pc = "done"
    /\ Cardinality(ExpenseCategories) = 4
    /\ Len(advice) = 3
    /\ top_categories[1].Amount > top_categories[3].Amount
    /\ \E i \in 1..3 : top_categories[i].key = "Other"

\* C10: when the overspending table is not empty, a month whose expense is
\* the least of all is within budget, so some month always is; a single
\* month, or months that all have the same expense, give no month at risk.
C10_MinimumNeverAtRisk ==
    (pc \in AfterPredict /\ Len(prediction_df) > 0) =>
       /\ \A i \in 1..Len(prediction_df) :
             (\A j \in 1..Len(prediction_df) :
                 prediction_df[i].Expense <= prediction_df[j].Expense)
             => prediction_df[i].Status = "Within Budget"
       /\ \E i \in 1..Len(prediction_df) : prediction_df[i].Status = "Within Budget"
       /\ (\A i, j \in 1..Len(prediction_df) :
              prediction_df[i].Expense = prediction_df[j].Expense)
          => ~Shown("warning:overspending")

C10_Witness ==
    /\ pc = "done"
    /\ Len(prediction_df) >= 2
    /\ \A i \in 1..Len(prediction_df) : prediction_df[i].Expense = 100
    /\ ~Shown("warning:overspending")

C10_WitnessZero ==
    /\ pc = "done"
    /\ Len(prediction_df) = 1
    /\ prediction_df[1].Expense = 0

====
